---- MODULE Spec2Model ----
(***************************************************************************)
(* The Order -> Payment -> Notification chain of the benchmark, once per   *)
(* protocol binding (REST, JSON-RPC, gRPC).  One chain per binding; a      *)
(* handler runs atomically between its suspension points (the simulated    *)
(* delay and the downstream call).                                         *)
(*                                                                         *)
(* Amounts are exact integers (minor units); identifiers, timestamps and   *)
(* payload sizes are left out.                                             *)
(***************************************************************************)
EXTENDS Integers, Sequences, FiniteSets, TLC

\* ------------------------------------------------------------------ bounds
MaxRequests == 2
MaxItems == 2

\* --------------------------------------------------------------- constants
Protocols == {"rest", "jsonrpc", "grpc"}
Services == {"order", "payment", "notification"}
ErrorTypes == {"payment_failed", "notification_failed", "connection_error", "internal_error"}

MethodOf(svc) ==
    CASE svc = "order" -> "create_order"
      [] svc = "payment" -> "process_payment"
      [] svc = "notification" -> "send_notification"

Triple(p, svc) == <<p, svc, MethodOf(svc)>>
Triples == {Triple(p, svc) : p \in Protocols, svc \in Services}
ErrorKeys == Protocols \X Services \X ErrorTypes

\* Texts of the exceptions the environment may raise (str(e) in the handlers).
FaultTexts == {"fault_a", "fault_b"}
ValidationText == "validation error"

HTTP_OK == 200
HTTP_UNPROCESSABLE == 422
HTTP_INTERNAL == 500
HTTP_UNAVAILABLE == 503
JSONRPC_SERVER_ERROR == -32000
JSONRPC_METHOD_NOT_FOUND == -32601

\* ---------------------------------------------------------------- entities
\* Two valid items, one that breaks the quantity constraint and one that
\* breaks the unit_price constraint.
OrderItems ==
    {[quantity |-> 1, unit_price |-> 3], [quantity |-> 2, unit_price |-> 3],
     [quantity |-> 0, unit_price |-> 3], [quantity |-> 1, unit_price |-> -1]}

RECURSIVE SeqsUpTo(_, _)
SeqsUpTo(S, n) ==
    IF n = 0 THEN {<<>>}
    ELSE LET shorter == SeqsUpTo(S, n - 1)
         IN shorter \cup {Append(s, x) : s \in {t \in shorter : Len(t) = n - 1}, x \in S}

\* The handlers read the items of an order through all(), sum() and len()
\* only, so two lists with the same items in another order are served alike:
\* one list is submitted for each, the one ordered by quantity, then price.
ItemBefore(a, b) ==
    \/ a.quantity < b.quantity
    \/ a.quantity = b.quantity /\ a.unit_price <= b.unit_price

ItemLists ==
    {w \in SeqsUpTo(OrderItems, MaxItems) :
        \A i \in 1..(Len(w) - 1) : ItemBefore(w[i], w[i + 1])}

\* Identifiers.  uuid4() gives a token no other call gives: it is named by what
\* it identifies, the process that made it and that process's running number.
NoId == [kind |-> "none", by |-> "", n |-> 0]
uuid4(kind, by, n) == [kind |-> kind, by |-> by, n |-> n]

NoOrder ==
    [present |-> FALSE, order_id |-> NoId, status |-> "none", total_amount |-> 0, n_items |-> 0]
NoPayment ==
    [present |-> FALSE, payment_id |-> NoId, order_id |-> NoId, status |-> "none",
     amount |-> 0, currency |-> "", payment_method |-> "",
     has_transaction_id |-> FALSE, processed |-> FALSE]
NoMessage == [text |-> "", order_id |-> NoId, payment_id |-> NoId]
NoNotification ==
    [present |-> FALSE, order_id |-> NoId, payment_id |-> NoId, status |-> "none",
     notification_type |-> "", message |-> NoMessage, sent |-> FALSE]

\* OrderItem: quantity ge=1, unit_price ge=0.
ValidItem(item) == item.quantity >= 1 /\ item.unit_price >= 0

\* OrderCreate: items min_length=1, each a valid OrderItem.
ValidOrderCreate(items) ==
    /\ Len(items) >= 1
    /\ \A i \in 1..Len(items) : ValidItem(items[i])

\* Python's sum(): starts at 0 and adds the terms left to right.
RECURSIVE PySum(_, _)
PySum(terms, acc) ==
    IF terms = <<>> THEN acc ELSE PySum(Tail(terms), acc + Head(terms))

LineTotals(items) == [i \in 1..Len(items) |-> items[i].quantity * items[i].unit_price]

from_create_SumsPrices(items) ==
    [present |-> TRUE, order_id |-> NoId, status |-> "pending",
     total_amount |-> PySum([i \in 1..Len(items) |-> items[i].unit_price], 0),
     n_items |-> Len(items)]

\* Order.from_create: total = sum(quantity * unit_price), status defaults to pending.
from_create(items) ==
    [present |-> TRUE, order_id |-> NoId, status |-> "pending",
     total_amount |-> PySum(LineTotals(items), 0),
     n_items |-> Len(items)]

\* The gRPC servicer builds the order inline, with no validation of the items.
GrpcBuildOrder(items) ==
    [present |-> TRUE, order_id |-> NoId, status |-> "pending",
     total_amount |-> PySum(LineTotals(items), 0),
     n_items |-> Len(items)]

\* Payment(...) as every ProcessPayment handler constructs it: status
\* processing, transaction_id already set.
NewPayment(req) ==
    [present |-> TRUE, payment_id |-> NoId, order_id |-> req.order_id,
     status |-> "processing", amount |-> req.amount, currency |-> req.currency,
     payment_method |-> req.payment_method, has_transaction_id |-> TRUE,
     processed |-> FALSE]

\* The id fields default to uuid4(): the constructor's result with the fresh
\* token filled in.
WithOrderId(order, id) == IF order.present THEN [order EXCEPT !.order_id = id] ELSE order
WithPaymentId(payment, id) ==
    IF payment.present THEN [payment EXCEPT !.payment_id = id] ELSE payment

CompletePayment_NotMarked(payment) == payment

CompletePayment(payment) == [payment EXCEPT !.status = "completed", !.processed = TRUE]

\* The f-string of the handlers: its fixed text and the two values it embeds.
NotificationMessage(order_id, payment_id) ==
    [text |-> "Your order {} has been confirmed. Payment {} processed successfully.",
     order_id |-> order_id, payment_id |-> payment_id]

NewNotification(req) ==
    [present |-> TRUE, order_id |-> req.order_id, payment_id |-> req.payment_id,
     status |-> "pending", notification_type |-> req.notification_type,
     message |-> NotificationMessage(req.order_id, req.payment_id), sent |-> FALSE]

MarkSent(notification) == [notification EXCEPT !.status = "sent", !.sent = TRUE]

PaymentMethods == {"credit_card", "debit_card", "bank_transfer", "paypal"}
NotificationTypes == {"email", "sms", "push"}

\* --------------------------------------------------- responses on the wire
\* One shape for what a caller can observe of a call:
\*   kind    "result" (REST 200 body, JSON-RPC result, gRPC OK payload),
\*           "error" (REST HTTPException, JSON-RPC error, gRPC non-OK status),
\*           "transport" (no reply: connection refused or timed out), "none"
\*   http    HTTP status (0 for gRPC);  grpc  gRPC status code ("" otherwise)
\*   code    JSON-RPC error code (0 when there is none)
\*   text    the fixed part of the error text;  detail  the str(e) part
\*   success the success flag of the body ("absent" when it has none)
NoResp ==
    [kind |-> "none", http |-> 0, grpc |-> "", code |-> 0, text |-> "", detail |-> "",
     success |-> "absent", order |-> NoOrder, payment |-> NoPayment,
     notification |-> NoNotification]

RestBody(success, order, payment, notification) ==
    [NoResp EXCEPT !.kind = "result", !.http = HTTP_OK, !.success = success,
                   !.order = order, !.payment = payment, !.notification = notification]

HTTPException(status, text, detail) ==
    [NoResp EXCEPT !.kind = "error", !.http = status, !.text = text, !.detail = detail]

\* jsonrpcserver Success / Error, sent by handle_jsonrpc as a web.Response (HTTP 200).
JsonRpcSuccess(order, payment, notification) ==
    [NoResp EXCEPT !.kind = "result", !.http = HTTP_OK,
                   !.order = order, !.payment = payment, !.notification = notification]

JsonRpcError(code, text, detail) ==
    [NoResp EXCEPT !.kind = "error", !.http = HTTP_OK, !.code = code,
                   !.text = text, !.detail = detail]

GrpcOk(order, payment, notification) ==
    [NoResp EXCEPT !.kind = "result", !.grpc = "OK", !.success = "true",
                   !.order = order, !.payment = payment, !.notification = notification]

\* context.set_code(code); context.set_details(...); return Response(success=False)
GrpcFailure(code, text, detail) ==
    [NoResp EXCEPT !.kind = "error", !.grpc = code, !.success = "false",
                   !.text = text, !.detail = detail]

\* httpx.RequestError / aiohttp.ClientError / grpc.RpcError(UNAVAILABLE, DEADLINE_EXCEEDED)
TransportFailure(detail) == [NoResp EXCEPT !.kind = "transport", !.detail = detail]

\* What a gRPC stub raises: no reply, or a reply whose status is not OK.
IsRpcError(reply) == reply.kind = "transport" \/ reply.grpc # "OK"

\* The logical success of a response, per binding: REST 200 with success true,
\* JSON-RPC a result member, gRPC status OK with success true.
Succeeded(r) == r.kind = "result" /\ r.success # "false"

\* ------------------------------------------------------- OrderService entry
\* Outcome of the part of CreateOrder up to the downstream call:
\*   counted  REQUEST_COUNT was incremented;  call  ProcessPayment is sent
Entered_SendsNoCall(order) ==
    [counted |-> TRUE, order |-> order, call |-> FALSE, resp |-> NoResp, error |-> "none"]

Entered(order) ==
    [counted |-> TRUE, order |-> order, call |-> TRUE, resp |-> NoResp, error |-> "none"]

Failed(counted, resp, error) ==
    [counted |-> counted, order |-> NoOrder, call |-> FALSE, resp |-> resp, error |-> error]

\* FastAPI validates the OrderCreate body before create_order runs (HTTP 422).
RestCreateOrder(items, fault) ==
    IF ~ValidOrderCreate(items)
    THEN Failed(FALSE, HTTPException(HTTP_UNPROCESSABLE, ValidationText, ""), "none")
    ELSE IF fault # ""
    THEN Failed(TRUE, HTTPException(HTTP_INTERNAL, "", fault), "internal_error")
    ELSE Entered(from_create(items))

\* OrderItem / OrderCreate are built inside the try block: a ValidationError is
\* caught by `except Exception`.
JsonRpcCreateOrder(items, fault) ==
    IF fault # ""
    THEN Failed(TRUE, JsonRpcError(JSONRPC_SERVER_ERROR, "", fault), "internal_error")
    ELSE IF ~ValidOrderCreate(items)
    THEN Failed(TRUE, JsonRpcError(JSONRPC_SERVER_ERROR, "", ValidationText), "internal_error")
    ELSE Entered(from_create(items))

GrpcCreateOrder(items, fault) ==
    IF fault # ""
    THEN Failed(TRUE, GrpcFailure("INTERNAL", "", fault), "internal_error")
    ELSE Entered(GrpcBuildOrder(items))

CreateOrderEntry(p, items, fault) ==
    CASE p = "rest" -> RestCreateOrder(items, fault)
      [] p = "jsonrpc" -> JsonRpcCreateOrder(items, fault)
      [] p = "grpc" -> GrpcCreateOrder(items, fault)

PaymentRequestFor_ItemCountAsAmount(order) ==
    [order_id |-> order.order_id, amount |-> order.n_items, currency |-> "USD",
     payment_method |-> "credit_card"]

\* The ProcessPayment request CreateOrder sends.
PaymentRequestFor(order) ==
    [order_id |-> order.order_id, amount |-> order.total_amount, currency |-> "USD",
     payment_method |-> "credit_card"]

\* ------------------------------------------------------ OrderService return
\* Outcome of the rest of a handler: its response, the ERROR_COUNT label it
\* incremented ("none" if none) and whether REQUEST_LATENCY was observed.
Returned(resp, error, latency) == [resp |-> resp, error |-> error, latency |-> latency]

RestCreateOrderReturn_MarksPaid(order, reply) ==
    IF reply.kind = "transport"
    THEN Returned(HTTPException(HTTP_UNAVAILABLE, "Service unavailable: ", reply.detail),
                  "connection_error", FALSE)
    ELSE IF reply.http # HTTP_OK
    THEN Returned(HTTPException(reply.http, "Payment processing failed", ""), "none", FALSE)
    ELSE Returned(RestBody("true", [order EXCEPT !.status = "paid"], reply.payment,
                           reply.notification), "none", TRUE)

RestCreateOrderReturn(order, reply) ==
    IF reply.kind = "transport"
    THEN Returned(HTTPException(HTTP_UNAVAILABLE, "Service unavailable: ", reply.detail),
                  "connection_error", FALSE)
    ELSE IF reply.http # HTTP_OK
    THEN Returned(HTTPException(reply.http, "Payment processing failed", ""), "none", FALSE)
    ELSE Returned(RestBody("true", order, reply.payment, reply.notification), "none", TRUE)

JsonRpcCreateOrderReturn_RaisesOnTransport(order, reply) ==
    IF reply.kind = "transport"
    THEN Returned(HTTPException(HTTP_UNAVAILABLE, "Service unavailable: ", reply.detail),
                  "connection_error", FALSE)
    ELSE IF reply.kind = "result"
    THEN Returned(JsonRpcSuccess(order, reply.payment, reply.notification), "none", TRUE)
    ELSE Returned(JsonRpcError(JSONRPC_SERVER_ERROR, "Payment failed", ""),
                  "payment_failed", FALSE)

\* A failed session.post is caught by `except Exception`, like any other fault.
JsonRpcCreateOrderReturn(order, reply) ==
    IF reply.kind = "transport"
    THEN Returned(JsonRpcError(JSONRPC_SERVER_ERROR, "", reply.detail), "internal_error", FALSE)
    ELSE IF reply.kind = "result"
    THEN Returned(JsonRpcSuccess(order, reply.payment, reply.notification), "none", TRUE)
    ELSE Returned(JsonRpcError(JSONRPC_SERVER_ERROR, "Payment failed", ""),
                  "payment_failed", FALSE)

GrpcCreateOrderReturn(order, reply) ==
    IF IsRpcError(reply)
    THEN Returned(GrpcFailure("UNAVAILABLE", "Service unavailable: ", reply.detail),
                  "connection_error", FALSE)
    ELSE IF reply.success # "true"
    THEN Returned(GrpcFailure("INTERNAL", "Payment processing failed", ""),
                  "payment_failed", FALSE)
    ELSE Returned(GrpcOk(order, reply.payment, reply.notification), "none", TRUE)

CreateOrderReturn(p, order, reply) ==
    CASE p = "rest" -> RestCreateOrderReturn(order, reply)
      [] p = "jsonrpc" -> JsonRpcCreateOrderReturn(order, reply)
      [] p = "grpc" -> GrpcCreateOrderReturn(order, reply)

\* ----------------------------------------------------- PaymentService entry
\* Outcome of the part of ProcessPayment up to the simulated gateway delay.
PaymentEntered(payment) ==
    [counted |-> TRUE, payment |-> payment, resp |-> NoResp, error |-> "none"]

PaymentFailed(counted, resp, error) ==
    [counted |-> counted, payment |-> NoPayment, resp |-> resp, error |-> error]

\* PaymentRequest: amount ge=0, payment_method a PaymentMethod.
ValidPaymentRequest(req) == req.amount >= 0 /\ req.payment_method \in PaymentMethods

\* FastAPI validates the PaymentRequest body before process_payment runs.
RestProcessPayment(req, fault) ==
    IF ~ValidPaymentRequest(req)
    THEN PaymentFailed(FALSE, HTTPException(HTTP_UNPROCESSABLE, ValidationText, ""), "none")
    ELSE IF fault # ""
    THEN PaymentFailed(TRUE, HTTPException(HTTP_INTERNAL, "", fault), "internal_error")
    ELSE PaymentEntered(NewPayment(req))

\* PaymentMethod(payment_method) raises ValueError inside the try block; the
\* Payment model puts no bound on amount.
JsonRpcProcessPayment(req, fault) ==
    IF fault # ""
    THEN PaymentFailed(TRUE, JsonRpcError(JSONRPC_SERVER_ERROR, "", fault), "internal_error")
    ELSE IF req.payment_method \notin PaymentMethods
    THEN PaymentFailed(TRUE, JsonRpcError(JSONRPC_SERVER_ERROR, "", ValidationText),
                       "internal_error")
    ELSE PaymentEntered(NewPayment(req))

GrpcProcessPayment(req, fault) ==
    IF fault # ""
    THEN PaymentFailed(TRUE, GrpcFailure("INTERNAL", "", fault), "internal_error")
    ELSE PaymentEntered(NewPayment(req))

ProcessPaymentEntry(p, req, fault) ==
    CASE p = "rest" -> RestProcessPayment(req, fault)
      [] p = "jsonrpc" -> JsonRpcProcessPayment(req, fault)
      [] p = "grpc" -> GrpcProcessPayment(req, fault)

\* ---------------------------------------------------- PaymentService return
RestProcessPaymentReturn_NotificationFatal(payment, reply) ==
    IF reply.kind = "transport"
    THEN Returned(HTTPException(HTTP_UNAVAILABLE, "Service unavailable: ", reply.detail),
                  "connection_error", FALSE)
    ELSE IF reply.http # HTTP_OK
    THEN Returned(HTTPException(reply.http, "Notification failed", ""), "none", FALSE)
    ELSE Returned(RestBody("true", NoOrder, payment, reply.notification), "none", TRUE)

\* The notification POST is inside the try block: httpx.RequestError is caught
\* by the handler's own except clause and turned into 503.
RestProcessPaymentReturn(payment, reply) ==
    IF reply.kind = "transport"
    THEN Returned(HTTPException(HTTP_UNAVAILABLE, "Service unavailable: ", reply.detail),
                  "connection_error", FALSE)
    ELSE Returned(RestBody("true", NoOrder, payment,
                           IF reply.http = HTTP_OK THEN reply.notification
                                                   ELSE NoNotification),
                  "none", TRUE)

\* aiohttp.ClientError is caught by `except Exception`.
JsonRpcProcessPaymentReturn(payment, reply) ==
    IF reply.kind = "transport"
    THEN Returned(JsonRpcError(JSONRPC_SERVER_ERROR, "", reply.detail), "internal_error", FALSE)
    ELSE Returned(JsonRpcSuccess(NoOrder, payment,
                                 IF reply.kind = "result" THEN reply.notification
                                                          ELSE NoNotification),
                  "none", TRUE)

\* The only handler with an inner try around the notification call.
GrpcProcessPaymentReturn(payment, reply) ==
    IF IsRpcError(reply)
    THEN Returned(GrpcOk(NoOrder, payment, NoNotification), "notification_failed", TRUE)
    ELSE Returned(GrpcOk(NoOrder, payment,
                         IF reply.success = "true" THEN reply.notification
                                                   ELSE NoNotification),
                  "none", TRUE)

ProcessPaymentReturn(p, payment, reply) ==
    CASE p = "rest" -> RestProcessPaymentReturn(payment, reply)
      [] p = "jsonrpc" -> JsonRpcProcessPaymentReturn(payment, reply)
      [] p = "grpc" -> GrpcProcessPaymentReturn(payment, reply)

\* The SendNotification request ProcessPayment sends.
NotificationRequestFor(payment) ==
    [order_id |-> payment.order_id, payment_id |-> payment.payment_id,
     recipient |-> "customer@example.com", notification_type |-> "email"]

\* ------------------------------------------------------ NotificationService
NotificationEntered(notification) ==
    [counted |-> TRUE, notification |-> notification, resp |-> NoResp, error |-> "none"]

NotificationFailed(counted, resp, error) ==
    [counted |-> counted, notification |-> NoNotification, resp |-> resp, error |-> error]

RestSendNotification(req, fault) ==
    IF req.notification_type \notin NotificationTypes
    THEN NotificationFailed(FALSE, HTTPException(HTTP_UNPROCESSABLE, ValidationText, ""), "none")
    ELSE IF fault # ""
    THEN NotificationFailed(TRUE, HTTPException(HTTP_INTERNAL, "", fault), "internal_error")
    ELSE NotificationEntered(NewNotification(req))

JsonRpcSendNotification(req, fault) ==
    IF fault # ""
    THEN NotificationFailed(TRUE, JsonRpcError(JSONRPC_SERVER_ERROR, "", fault),
                            "internal_error")
    ELSE IF req.notification_type \notin NotificationTypes
    THEN NotificationFailed(TRUE, JsonRpcError(JSONRPC_SERVER_ERROR, "", ValidationText),
                            "internal_error")
    ELSE NotificationEntered(NewNotification(req))

GrpcSendNotification(req, fault) ==
    IF fault # ""
    THEN NotificationFailed(TRUE, GrpcFailure("INTERNAL", "", fault), "internal_error")
    ELSE NotificationEntered(NewNotification(req))

SendNotificationEntry(p, req, fault) ==
    CASE p = "rest" -> RestSendNotification(req, fault)
      [] p = "jsonrpc" -> JsonRpcSendNotification(req, fault)
      [] p = "grpc" -> GrpcSendNotification(req, fault)

\* After the simulated send delay: status sent, latency observed, success returned.
SendNotificationReturn(p, notification) ==
    CASE p = "rest" ->
           Returned(RestBody("true", NoOrder, NoPayment, MarkSent(notification)), "none", TRUE)
      [] p = "jsonrpc" ->
           Returned(JsonRpcSuccess(NoOrder, NoPayment, MarkSent(notification)), "none", TRUE)
      [] p = "grpc" ->
           Returned(GrpcOk(NoOrder, NoPayment, MarkSent(notification)), "none", TRUE)

\* A peer that answers with a well-formed negative result and no entity: REST
\* HTTP 200 with success false, JSON-RPC an error envelope, gRPC status OK with
\* success false.
NegativeResult(p) ==
    CASE p = "rest" -> RestBody("false", NoOrder, NoPayment, NoNotification)
      [] p = "jsonrpc" -> JsonRpcError(JSONRPC_SERVER_ERROR, "declined", "")
      [] p = "grpc" -> [GrpcOk(NoOrder, NoPayment, NoNotification) EXCEPT !.success = "false"]

\* handle_jsonrpc: async_dispatch runs the handler registered under the method
\* name, or answers "Method not found"; the reply is sent as a web.Response
\* (HTTP 200) either way.
UnregisteredMethods == {"invalid_method"}
MethodNotFound == JsonRpcError(JSONRPC_METHOD_NOT_FOUND, "Method not found", "")
handle_jsonrpc(svc, name, handled) == IF name = MethodOf(svc) THEN handled ELSE MethodNotFound

\* ------------------------------------------------------------ health checks
\* The body of GET /health, one literal per service file.
RestHealthBodies ==
    [order |-> [status |-> "healthy", service |-> "order-rest"],
     payment |-> [status |-> "healthy", service |-> "payment-rest"],
     notification |-> [status |-> "healthy", service |-> "notification-rest"]]

JsonRpcHealthBodies ==
    [order |-> [status |-> "healthy", service |-> "order-jsonrpc"],
     payment |-> [status |-> "healthy", service |-> "payment-jsonrpc"],
     notification |-> [status |-> "healthy", service |-> "notification-jsonrpc"]]

NoBody == [status |-> "", service |-> ""]
NoProbe == [service |-> "", protocol |-> "", answered |-> FALSE, body |-> NoBody]

\* A gRPC server registers its one servicer and a metrics port: it has no health
\* service and no /health route, so a probe gets no health body.
health_check(svc, p) ==
    CASE p = "rest" ->
           [service |-> svc, protocol |-> p, answered |-> TRUE, body |-> RestHealthBodies[svc]]
      [] p = "jsonrpc" ->
           [service |-> svc, protocol |-> p, answered |-> TRUE, body |-> JsonRpcHealthBodies[svc]]
      [] p = "grpc" ->
           [service |-> svc, protocol |-> p, answered |-> FALSE, body |-> NoBody]

\* ------------------------------------------------------------ JsonRpcClient
\* The body of a JSON-RPC reply as async_dispatch serialises it: the members
\* it has, its result, and its error object {code, message}.
NoResult == [order |-> NoOrder, payment |-> NoPayment, notification |-> NoNotification]
NoErrorObject == [code |-> 0, message |-> ""]
ResponseBody(r) ==
    IF r.kind = "result"
    THEN [members |-> {"jsonrpc", "result", "id"},
          result |-> [order |-> r.order, payment |-> r.payment,
                      notification |-> r.notification],
          error |-> NoErrorObject]
    ELSE [members |-> {"jsonrpc", "error", "id"},
          result |-> NoResult,
          error |-> [code |-> r.code, message |-> r.text \o r.detail]]

\* jsonrpcclient.parse: Ok(result) if the body has a result member, else
\* Error(code, message) read from its error object.
parse(body) ==
    IF "result" \in body.members
    THEN [ok |-> TRUE, result |-> body.result, code |-> 0, message |-> ""]
    ELSE [ok |-> FALSE, result |-> NoResult,
          code |-> body.error.code, message |-> body.error.message]

\* How a call ends: it returns a value or raises an exception.
NoOutcome ==
    [kind |-> "none", exception |-> "", code |-> 0, message |-> "", value |-> NoResult]
ReturnValue(value) == [NoOutcome EXCEPT !.kind = "returned", !.value = value]
Raise(exception, code, message) ==
    [NoOutcome EXCEPT !.kind = "raised", !.exception = exception, !.code = code,
                      !.message = message]

NotInitializedText == "Client not initialized. Use async with context."
SessionClosedText == "Session is closed"

\* JsonRpcClient.call up to the post: `if not self._session` is true only
\* while _session is None (__aexit__ closes the session and keeps the
\* attribute); a closed aiohttp session refuses the post.
call_NotInitializedWhenClosed(session) ==
    IF session # "open" THEN Raise("RuntimeError", 0, NotInitializedText) ELSE NoOutcome

call(session) ==
    CASE session = "none" -> Raise("RuntimeError", 0, NotInitializedText)
      [] session = "closed" -> Raise("RuntimeError", 0, SessionClosedText)
      [] session = "open" -> NoOutcome

\* JsonRpcClient.call from the reply on: no reply raises aiohttp.ClientError
\* out of session.post; a reply is parsed and returned or raised.
call_ReturnsErrorObject(reply) ==
    IF reply.kind = "transport"
    THEN Raise("ClientError", 0, reply.detail)
    ELSE ReturnValue(parse(ResponseBody(reply)).result)

call_reply(reply) ==
    IF reply.kind = "transport"
    THEN Raise("ClientError", 0, reply.detail)
    ELSE LET parsed == parse(ResponseBody(reply))
         IN IF parsed.ok
            THEN ReturnValue(parsed.result)
            ELSE Raise("JsonRpcError", parsed.code, parsed.message)

\* JsonRpcClient.__init__: no session yet.
NewClient ==
    [session |-> "none", pc |-> "ready", sent |-> 0, reply |-> NoResp,
     outcome |-> NoOutcome]

\* ----------------------------------------------------------- load generator
\* What one task invocation reports to the statistics: a list of outcomes.
\* An HttpUser post that gets no reply yields a response with status_code 0.
\* RestOrderUser: 200 and data.get("success") -> response.success().
RestTask(resp) ==
    IF resp.http = HTTP_OK
    THEN IF resp.success = "true" THEN <<"success">> ELSE <<"failure">>
    ELSE <<"failure">>

\* JsonRpcOrderUser._make_jsonrpc_request: 200 and a result member.
JsonRpcTask(resp) ==
    IF resp.kind # "transport" /\ resp.http = HTTP_OK
    THEN LET data == ResponseBody(resp)
         IN IF "result" \in data.members THEN <<"success">>
            ELSE IF "error" \in data.members THEN <<"failure">>
            ELSE <<"failure">>
    ELSE <<"failure">>

GrpcTask_DropsRpcError(resp) ==
    IF IsRpcError(resp) THEN <<>>
    ELSE IF resp.success = "true" THEN <<"success">>
    ELSE <<"failure">>

\* GrpcLocustUser: GrpcClient.create_order turns grpc.RpcError into
\* LocustError, which the task's `except Exception` reports as a failure.
GrpcTask(resp) ==
    IF IsRpcError(resp) THEN <<"failure">>
    ELSE IF resp.success = "true" THEN <<"success">>
    ELSE <<"failure">>

Task(p, resp) ==
    CASE p = "rest" -> RestTask(resp)
      [] p = "jsonrpc" -> JsonRpcTask(resp)
      [] p = "grpc" -> GrpcTask(resp)

\* A user before its first task.
NoDriver == [binding |-> "", pc |-> "ready", resp |-> NoResp, recorded |-> <<>>]

\* -------------------------------------------------------------------- state
VARIABLES
    workload,      \* the item list the load generator submits in this run
    ch,            \* per binding: the chain of the request it is serving
    requestCount,  \* REQUEST_COUNT, by (protocol, service, method)
    latencyCount,  \* number of REQUEST_LATENCY observations, same labels
    errorCount,    \* ERROR_COUNT, by (protocol, service, error_type)
    calls,         \* calls that reached each entry point (observer's count)
    started,       \* CreateOrder requests submitted so far
    health,        \* what the last health probe got back
    slots,         \* the requests of a load run against one binding's stack
    proc,          \* that stack: its binding and the state of each process's client
    client,        \* a JsonRpcClient: its session, its call in progress, its last outcome
    driver         \* a load-generator user: its binding and what its task recorded

vars ==
    <<workload, ch, requestCount, latencyCount, errorCount, calls, started, health,
      slots, proc, client, driver>>

\* pc of a chain: where the one request of that binding is.
\*   idle         no request
\*   o_wait_pay   CreateOrder has sent ProcessPayment and awaits the reply
\*   p_sleep      ProcessPayment is in the simulated gateway delay
\*   p_wait_notif ProcessPayment has sent SendNotification and awaits the reply
\*   n_sleep      SendNotification is in the simulated send delay
\*   p_resume     the notification call has returned or failed
\*   o_resume     the payment call has returned or failed
\*   done         CreateOrder has answered its caller
\*   n_direct     SendNotification, called by a client of its own, is in the
\*                send delay;  n_done  it has answered that client
IdleChain ==
    [pc |-> "idle", order |-> NoOrder, payment |-> NoPayment,
     notification |-> NoNotification,
     ordFault |-> "none", payFault |-> "none", notifFault |-> "none",
     notifReply |-> NoResp, payReply |-> NoResp, resp |-> NoResp,
     payCalls |-> 0, notifCalls |-> 0, notifType |-> ""]

Faults == {""} \cup FaultTexts

Bump_Overwrites(counter, key) == [counter EXCEPT ![key] = 1]

\* REQUEST_COUNT.labels(...).inc(): one call with no await in it, so no other
\* handler of the process runs between its read and its write.
Bump(counter, key) == [counter EXCEPT ![key] = @ + 1]
BumpIf(cond, counter, key) == IF cond THEN Bump(counter, key) ELSE counter
BumpError_LabelsOrder(p, svc, error) ==
    IF error = "none" THEN errorCount ELSE Bump(errorCount, <<p, "order", error>>)

BumpError(p, svc, error) ==
    IF error = "none" THEN errorCount ELSE Bump(errorCount, <<p, svc, error>>)

\* Request i of a load run is slots[i].  A slot is at the same points as a
\* chain; entered is the set of services whose handler has counted the
\* request, overlapped whether another request was in flight when this one
\* arrived, payClient and notifClient the state the downstream client was in
\* when the handler used it ("unused" while it has not).
Slots == 1..MaxRequests
ClientServices == {"order", "payment"}
IdleSlot ==
    [pc |-> "idle", order |-> NoOrder, payment |-> NoPayment,
     notification |-> NoNotification,
     notifReply |-> NoResp, payReply |-> NoResp, resp |-> NoResp,
     entered |-> {}, overlapped |-> FALSE,
     payClient |-> "unused", notifClient |-> "unused"]

\* Client of a process: "none" before startup, "open", "closed" after shutdown.
\* In the chain view every service is up for the whole run.
AllRunning == [binding |-> "all", order |-> "open", payment |-> "open"]
ChannelClosedText == "Channel is closed."
ConnectionRefusedText == "Connection refused"

FreshId_NotFresh(kind, p) == uuid4(kind, p, 1)

\* The token the svc service of binding p gets from uuid4() in the call it is
\* about to count.
FreshId(kind, p) == uuid4(kind, p, calls[Triple(p, kind)] + 1)

\* One request at a time: the chains of the three bindings share no state.
NoneInFlight == \A q \in Protocols : ch[q].pc \in {"idle", "done"}

Init ==
    /\ workload \in ItemLists
    /\ ch = [p \in Protocols |-> IdleChain]
    /\ requestCount = [t \in Triples |-> 0]
    /\ latencyCount = [t \in Triples |-> 0]
    /\ errorCount = [k \in ErrorKeys |-> 0]
    /\ calls = [t \in Triples |-> 0]
    /\ started = 0
    /\ health = NoProbe
    /\ slots = <<>>   \* no load run in the chain view
    /\ proc = AllRunning
    /\ client = NewClient
    /\ driver = NoDriver

\* ------------------------------------------------------------------ actions
\* A client posts CreateOrder to binding p; the handler runs up to the
\* ProcessPayment call, or answers at once.
CreateOrder(p) ==
    /\ ch[p].pc = "idle"
    /\ NoneInFlight
    /\ started < MaxRequests
    /\ \E fault \in Faults :
         LET out == CreateOrderEntry(p, workload, fault)
         IN /\ ch' = [ch EXCEPT ![p] =
                        [@ EXCEPT !.pc = IF out.call THEN "o_wait_pay" ELSE "done",
                                  !.order = WithOrderId(out.order, FreshId("order", p)),
                                  !.ordFault = IF out.counted /\ fault # ""
                                                 THEN "internal" ELSE "none",
                                  !.resp = out.resp,
                                  !.payCalls = IF out.call THEN 1 ELSE 0]]
            /\ requestCount' = BumpIf(out.counted, requestCount, Triple(p, "order"))
            /\ errorCount' = BumpError(p, "order", out.error)
    /\ calls' = Bump(calls, Triple(p, "order"))
    /\ started' = started + 1
    /\ UNCHANGED <<workload, client, driver, health, slots, proc, latencyCount>>

\* The ProcessPayment call finds no payment service, or times out.
PaymentUnreachable(p) ==
    /\ ch[p].pc = "o_wait_pay"
    /\ \E text \in FaultTexts :
         ch' = [ch EXCEPT ![p] = [@ EXCEPT !.pc = "o_resume", !.payFault = "unreachable",
                                           !.payReply = TransportFailure(text)]]
    /\ UNCHANGED <<workload, client, driver, health, slots, proc, requestCount, latencyCount, errorCount, calls, started>>

\* The payment peer reports a business failure.
PaymentDeclined(p) ==
    /\ ch[p].pc = "o_wait_pay"
    /\ ch' = [ch EXCEPT ![p] = [@ EXCEPT !.pc = "o_resume", !.payFault = "declined",
                                         !.payReply = NegativeResult(p)]]
    /\ UNCHANGED <<workload, client, driver, health, slots, proc, requestCount, latencyCount, errorCount, calls, started>>

\* The payment endpoint refuses the REST request with a client-error status.
PaymentRejects ==
    /\ ch["rest"].pc = "o_wait_pay"
    /\ ch' = [ch EXCEPT !["rest"] =
                [@ EXCEPT !.pc = "o_resume", !.payFault = "rejected",
                          !.payReply = HTTPException(HTTP_UNPROCESSABLE, ValidationText, "")]]
    /\ UNCHANGED <<workload, client, driver, health, slots, proc, requestCount, latencyCount, errorCount, calls, started>>

\* The payment service receives the request and runs up to the gateway delay,
\* or answers at once.
ProcessPayment(p) ==
    /\ ch[p].pc = "o_wait_pay"
    /\ \E fault \in Faults :
         LET out == ProcessPaymentEntry(p, PaymentRequestFor(ch[p].order), fault)
             stop == out.resp.kind # "none"
         IN /\ ch' = [ch EXCEPT ![p] =
                        [@ EXCEPT !.pc = IF stop THEN "o_resume" ELSE "p_sleep",
                                  !.payment = WithPaymentId(out.payment, FreshId("payment", p)),
                                  !.payFault = IF out.counted /\ fault # ""
                                                 THEN "internal" ELSE "none",
                                  !.payReply = out.resp]]
            /\ requestCount' = BumpIf(out.counted, requestCount, Triple(p, "payment"))
            /\ errorCount' = BumpError(p, "payment", out.error)
    /\ calls' = Bump(calls, Triple(p, "payment"))
    /\ UNCHANGED <<workload, client, driver, health, slots, proc, latencyCount, started>>

\* The gateway delay is over: the payment is completed and SendNotification is sent.
PaymentAfterDelay(p) ==
    /\ ch[p].pc = "p_sleep"
    /\ ch' = [ch EXCEPT ![p] = [@ EXCEPT !.pc = "p_wait_notif",
                                         !.payment = CompletePayment(@),
                                         !.notifCalls = 1]]
    /\ UNCHANGED <<workload, client, driver, health, slots, proc, requestCount, latencyCount, errorCount, calls, started>>

NotificationUnreachable(p) ==
    /\ ch[p].pc = "p_wait_notif"
    /\ \E text \in FaultTexts :
         ch' = [ch EXCEPT ![p] = [@ EXCEPT !.pc = "p_resume", !.notifFault = "unreachable",
                                           !.notifReply = TransportFailure(text)]]
    /\ UNCHANGED <<workload, client, driver, health, slots, proc, requestCount, latencyCount, errorCount, calls, started>>

\* The notification peer reports a failure of its own.
NotificationDeclined(p) ==
    /\ ch[p].pc = "p_wait_notif"
    /\ ch' = [ch EXCEPT ![p] = [@ EXCEPT !.pc = "p_resume", !.notifFault = "declined",
                                         !.notifReply = NegativeResult(p)]]
    /\ UNCHANGED <<workload, client, driver, health, slots, proc, requestCount, latencyCount, errorCount, calls, started>>

SendNotification(p) ==
    /\ ch[p].pc = "p_wait_notif"
    /\ \E fault \in Faults :
         LET out == SendNotificationEntry(p, NotificationRequestFor(ch[p].payment), fault)
             stop == out.resp.kind # "none"
         IN /\ ch' = [ch EXCEPT ![p] =
                        [@ EXCEPT !.pc = IF stop THEN "p_resume" ELSE "n_sleep",
                                  !.notification = out.notification,
                                  !.notifFault = IF out.counted /\ fault # ""
                                                   THEN "internal" ELSE "none",
                                  !.notifReply = out.resp]]
            /\ requestCount' = BumpIf(out.counted, requestCount, Triple(p, "notification"))
            /\ errorCount' = BumpError(p, "notification", out.error)
    /\ calls' = Bump(calls, Triple(p, "notification"))
    /\ UNCHANGED <<workload, client, driver, health, slots, proc, latencyCount, started>>

NotificationAfterDelay(p) ==
    /\ ch[p].pc = "n_sleep"
    /\ LET out == SendNotificationReturn(p, ch[p].notification)
       IN /\ ch' = [ch EXCEPT ![p] = [@ EXCEPT !.pc = "p_resume",
                                               !.notification = MarkSent(@),
                                               !.notifReply = out.resp]]
          /\ latencyCount' = BumpIf(out.latency, latencyCount, Triple(p, "notification"))
    /\ UNCHANGED <<workload, client, driver, health, slots, proc, requestCount, errorCount, calls, started>>

\* Notification types a client of the notification service may send.
ClientNotificationTypes == {"sms", "invalid_type"}
ClientNotificationRequest(type) ==
    [order_id |-> uuid4("order", "client", 1), payment_id |-> uuid4("payment", "client", 1),
     recipient |-> "test@example.com", notification_type |-> type]

\* A client calls SendNotification of binding p directly, with no other
\* response waiting to be read.
ClientSendNotification(p) ==
    /\ \A q \in Protocols : ch[q].pc = "idle"
    /\ started < MaxRequests
    /\ \E type \in ClientNotificationTypes :
         LET out == SendNotificationEntry(p, ClientNotificationRequest(type), "")
             stop == out.resp.kind # "none"
         IN /\ ch' = [ch EXCEPT ![p] =
                        [@ EXCEPT !.pc = IF stop THEN "n_done" ELSE "n_direct",
                                  !.notification = out.notification,
                                  !.notifType = type,
                                  !.notifReply = out.resp]]
            /\ requestCount' = BumpIf(out.counted, requestCount, Triple(p, "notification"))
            /\ errorCount' = BumpError(p, "notification", out.error)
    /\ calls' = Bump(calls, Triple(p, "notification"))
    /\ started' = started + 1
    /\ UNCHANGED <<workload, client, driver, health, slots, proc, latencyCount>>

ClientNotificationAfterDelay(p) ==
    /\ ch[p].pc = "n_direct"
    /\ LET out == SendNotificationReturn(p, ch[p].notification)
       IN /\ ch' = [ch EXCEPT ![p] = [@ EXCEPT !.pc = "n_done",
                                               !.notification = MarkSent(@),
                                               !.notifReply = out.resp]]
          /\ latencyCount' = BumpIf(out.latency, latencyCount, Triple(p, "notification"))
    /\ UNCHANGED <<workload, client, driver, health, slots, proc, requestCount, errorCount, calls, started>>

\* ProcessPayment resumes with the outcome of the notification call and answers.
PaymentResume(p) ==
    /\ ch[p].pc = "p_resume"
    /\ LET out == ProcessPaymentReturn(p, ch[p].payment, ch[p].notifReply)
       IN /\ ch' = [ch EXCEPT ![p] = [@ EXCEPT !.pc = "o_resume", !.payReply = out.resp]]
          /\ latencyCount' = BumpIf(out.latency, latencyCount, Triple(p, "payment"))
          /\ errorCount' = BumpError(p, "payment", out.error)
    /\ UNCHANGED <<workload, client, driver, health, slots, proc, requestCount, calls, started>>

\* CreateOrder resumes with the outcome of the payment call and answers.
OrderResume(p) ==
    /\ ch[p].pc = "o_resume"
    /\ LET out == CreateOrderReturn(p, ch[p].order, ch[p].payReply)
       IN /\ ch' = [ch EXCEPT ![p] = [@ EXCEPT !.pc = "done", !.resp = out.resp]]
          /\ latencyCount' = BumpIf(out.latency, latencyCount, Triple(p, "order"))
          /\ errorCount' = BumpError(p, "order", out.error)
    /\ UNCHANGED <<workload, client, driver, health, slots, proc, requestCount, calls, started>>

\* The client has read the response; the binding is free for the next request.
Collect(p) ==
    /\ ch[p].pc \in {"done", "n_done"}
    /\ ch' = [ch EXCEPT ![p] = IdleChain]
    /\ UNCHANGED <<workload, client, driver, health, slots, proc, requestCount, latencyCount, errorCount, calls, started>>

\* A client posts a request for a method the JSON-RPC order service has not
\* registered: no handler runs.
UnregisteredMethod ==
    /\ ch["jsonrpc"].pc = "idle"
    /\ NoneInFlight
    /\ started < MaxRequests
    /\ \E name \in UnregisteredMethods :
         ch' = [ch EXCEPT !["jsonrpc"] =
                  [@ EXCEPT !.pc = "done", !.ordFault = "unregistered",
                            !.resp = handle_jsonrpc("order", name, NoResp)]]
    /\ started' = started + 1
    /\ UNCHANGED <<workload, client, driver, health, slots, proc, requestCount, latencyCount, errorCount, calls>>

Next ==
    \/ UnregisteredMethod
    \/ PaymentRejects
    \/ \E p \in Protocols :
        \/ CreateOrder(p)
        \/ PaymentUnreachable(p)
        \/ PaymentDeclined(p)
        \/ ProcessPayment(p)
        \/ PaymentAfterDelay(p)
        \/ NotificationUnreachable(p)
        \/ NotificationDeclined(p)
        \/ SendNotification(p)
        \/ NotificationAfterDelay(p)
        \/ ClientSendNotification(p)
        \/ ClientNotificationAfterDelay(p)
        \/ PaymentResume(p)
        \/ OrderResume(p)
        \/ Collect(p)

Spec == Init /\ [][Next]_vars

\* A monitor probes the health check of one service of one binding, at any
\* time; the handlers read and write none of the service's state.
HealthCheck(svc, p) ==
    /\ health' = health_check(svc, p)
    /\ UNCHANGED <<workload, client, driver, ch, requestCount, latencyCount, errorCount, calls, started,
                   slots, proc>>

HealthNext ==
    \/ Next
    \/ \E svc \in Services, p \in Protocols : HealthCheck(svc, p)

HealthSpec == Init /\ [][HealthNext]_vars

\* ------------------------------------------------------- service processes
\* One binding's stack from startup to shutdown, with the requests of a load
\* run in flight in it at the same time.  No fault is injected: a call fails
\* only if the process it goes to is not serving or the client is closed.

\* lifespan (before yield) / init_session / initialize: the client is created.
Startup(svc) ==
    /\ proc.binding \in Protocols
    /\ proc[svc] = "none"
    /\ proc' = [proc EXCEPT ![svc] = "open"]
    /\ UNCHANGED <<workload, client, driver, ch, requestCount, latencyCount, errorCount, calls, started,
                   health, slots>>

HandlerInFlight(svc, slot) ==
    CASE svc = "order" ->
           slot.pc \in {"o_wait_pay", "p_sleep", "p_wait_notif", "n_sleep", "p_resume", "o_resume"}
      [] svc = "payment" -> slot.pc \in {"p_sleep", "p_wait_notif", "n_sleep", "p_resume"}

\* channel.close() cancels the calls in flight on the channel: the caller's
\* await raises grpc.RpcError.
CancelCalls(svc, slot) ==
    CASE svc = "order" ->
           IF slot.pc \in {"o_wait_pay", "p_sleep", "p_wait_notif", "n_sleep", "p_resume"}
           THEN [slot EXCEPT !.pc = "o_resume",
                             !.payReply = TransportFailure(ChannelClosedText)]
           ELSE slot
      [] svc = "payment" ->
           IF slot.pc \in {"p_wait_notif", "n_sleep"}
           THEN [slot EXCEPT !.pc = "p_resume",
                             !.notifReply = TransportFailure(ChannelClosedText)]
           ELSE slot

\* The client is closed.  uvicorn and aiohttp run the shutdown hook once the
\* handlers in flight have finished; the gRPC serve() closes the channel in its
\* finally clause, with the server never stopped and its handlers still running.
Shutdown(svc) ==
    /\ proc.binding \in Protocols
    /\ proc[svc] = "open"
    /\ proc' = [proc EXCEPT ![svc] = "closed"]
    /\ IF proc.binding = "grpc"
       THEN slots' = [s \in Slots |-> CancelCalls(svc, slots[s])]
       ELSE /\ \A s \in Slots : ~HandlerInFlight(svc, slots[s])
            /\ UNCHANGED slots
    /\ UNCHANGED <<workload, client, driver, ch, requestCount, latencyCount, errorCount, calls, started,
                   health>>

\* The load generator sends request s; the order process is serving.
SlotCreateOrder(s) ==
    /\ proc.binding \in Protocols
    /\ s = started + 1
    /\ started < MaxRequests
    /\ proc.order = "open"
    /\ LET p == proc.binding
           out == CreateOrderEntry(p, workload, "")
       IN /\ slots' = [slots EXCEPT ![s] =
                         [@ EXCEPT !.pc = IF out.call THEN "o_wait_pay" ELSE "done",
                                   !.order = WithOrderId(out.order, FreshId("order", p)),
                                   !.resp = out.resp,
                                   !.entered = IF out.counted THEN {"order"} ELSE {},
                                   !.overlapped =
                                       \E t \in Slots : HandlerInFlight("order", slots[t]),
                                   !.payClient = IF out.call THEN proc.order ELSE "unused"]]
          /\ requestCount' = BumpIf(out.counted, requestCount, Triple(p, "order"))
          /\ errorCount' = BumpError(p, "order", out.error)
          /\ calls' = Bump(calls, Triple(p, "order"))
    /\ started' = started + 1
    /\ UNCHANGED <<workload, client, driver, ch, latencyCount, health, proc>>

\* The ProcessPayment call arrives: the handler runs up to the gateway delay,
\* or nothing is serving and the call fails in transit.
SlotProcessPayment(s) ==
    /\ slots[s].pc = "o_wait_pay"
    /\ LET p == proc.binding
           out == ProcessPaymentEntry(p, PaymentRequestFor(slots[s].order), "")
           stop == out.resp.kind # "none"
       IN IF proc.payment = "open"
          THEN /\ slots' = [slots EXCEPT ![s] =
                              [@ EXCEPT !.pc = IF stop THEN "o_resume" ELSE "p_sleep",
                                        !.payment =
                                            WithPaymentId(out.payment, FreshId("payment", p)),
                                        !.payReply = out.resp,
                                        !.entered = IF out.counted
                                                      THEN @ \cup {"payment"} ELSE @]]
               /\ requestCount' = BumpIf(out.counted, requestCount, Triple(p, "payment"))
               /\ errorCount' = BumpError(p, "payment", out.error)
               /\ calls' = Bump(calls, Triple(p, "payment"))
          ELSE /\ slots' = [slots EXCEPT ![s] =
                              [@ EXCEPT !.pc = "o_resume",
                                        !.payReply = TransportFailure(ConnectionRefusedText)]]
               /\ UNCHANGED <<requestCount, errorCount, calls>>
    /\ UNCHANGED <<workload, client, driver, ch, latencyCount, started, health, proc>>

\* The gateway delay is over: the payment is completed and the handler calls
\* SendNotification on its client.  On a closed channel the call raises, and
\* the handler's except clause answers.
SlotPaymentAfterDelay(s) ==
    /\ slots[s].pc = "p_sleep"
    /\ LET p == proc.binding
           raised == ProcessPaymentEntry(p, PaymentRequestFor(slots[s].order),
                                         ChannelClosedText)
       IN IF proc.payment = "open"
          THEN /\ slots' = [slots EXCEPT ![s] =
                              [@ EXCEPT !.pc = "p_wait_notif",
                                        !.payment = CompletePayment(@),
                                        !.notifClient = proc.payment]]
               /\ UNCHANGED errorCount
          ELSE /\ slots' = [slots EXCEPT ![s] =
                              [@ EXCEPT !.pc = "o_resume",
                                        !.payment = CompletePayment(@),
                                        !.payReply = raised.resp,
                                        !.notifClient = proc.payment]]
               /\ errorCount' = BumpError(p, "payment", raised.error)
    /\ UNCHANGED <<workload, client, driver, ch, requestCount, latencyCount, calls, started, health, proc>>

SlotSendNotification(s) ==
    /\ slots[s].pc = "p_wait_notif"
    /\ LET p == proc.binding
           out == SendNotificationEntry(p, NotificationRequestFor(slots[s].payment), "")
           stop == out.resp.kind # "none"
       IN /\ slots' = [slots EXCEPT ![s] =
                         [@ EXCEPT !.pc = IF stop THEN "p_resume" ELSE "n_sleep",
                                   !.notification = out.notification,
                                   !.notifReply = out.resp,
                                   !.entered = IF out.counted
                                                 THEN @ \cup {"notification"} ELSE @]]
          /\ requestCount' = BumpIf(out.counted, requestCount, Triple(p, "notification"))
          /\ errorCount' = BumpError(p, "notification", out.error)
          /\ calls' = Bump(calls, Triple(p, "notification"))
    /\ UNCHANGED <<workload, client, driver, ch, latencyCount, started, health, proc>>

SlotNotificationAfterDelay(s) ==
    /\ slots[s].pc = "n_sleep"
    /\ LET p == proc.binding
           out == SendNotificationReturn(p, slots[s].notification)
       IN /\ slots' = [slots EXCEPT ![s] = [@ EXCEPT !.pc = "p_resume",
                                                     !.notification = MarkSent(@),
                                                     !.notifReply = out.resp]]
          /\ latencyCount' = BumpIf(out.latency, latencyCount, Triple(p, "notification"))
    /\ UNCHANGED <<workload, client, driver, ch, requestCount, errorCount, calls, started, health, proc>>

SlotPaymentResume(s) ==
    /\ slots[s].pc = "p_resume"
    /\ LET p == proc.binding
           out == ProcessPaymentReturn(p, slots[s].payment, slots[s].notifReply)
       IN /\ slots' = [slots EXCEPT ![s] = [@ EXCEPT !.pc = "o_resume",
                                                     !.payReply = out.resp]]
          /\ latencyCount' = BumpIf(out.latency, latencyCount, Triple(p, "payment"))
          /\ errorCount' = BumpError(p, "payment", out.error)
    /\ UNCHANGED <<workload, client, driver, ch, requestCount, calls, started, health, proc>>

SlotOrderResume(s) ==
    /\ slots[s].pc = "o_resume"
    /\ LET p == proc.binding
           out == CreateOrderReturn(p, slots[s].order, slots[s].payReply)
       IN /\ slots' = [slots EXCEPT ![s] = [@ EXCEPT !.pc = "done", !.resp = out.resp]]
          /\ latencyCount' = BumpIf(out.latency, latencyCount, Triple(p, "order"))
          /\ errorCount' = BumpError(p, "order", out.error)
    /\ UNCHANGED <<workload, client, driver, ch, requestCount, calls, started, health, proc>>

\* A load run sends orders of one item to the stack of one binding, which
\* starts with no process up.
LoadInit ==
    /\ workload \in {w \in ItemLists : Len(w) = 1}
    /\ ch = [p \in Protocols |-> IdleChain]
    /\ requestCount = [t \in Triples |-> 0]
    /\ latencyCount = [t \in Triples |-> 0]
    /\ errorCount = [k \in ErrorKeys |-> 0]
    /\ calls = [t \in Triples |-> 0]
    /\ started = 0
    /\ health = NoProbe
    /\ slots = [s \in Slots |-> IdleSlot]
    /\ proc \in {[binding |-> p, order |-> "none", payment |-> "none"] : p \in Protocols}
    /\ client = NewClient
    /\ driver = NoDriver

LoadNext ==
    \/ \E svc \in ClientServices :
        \/ Startup(svc)
        \/ Shutdown(svc)
    \/ \E s \in Slots :
        \/ SlotCreateOrder(s)
        \/ SlotProcessPayment(s)
        \/ SlotPaymentAfterDelay(s)
        \/ SlotSendNotification(s)
        \/ SlotNotificationAfterDelay(s)
        \/ SlotPaymentResume(s)
        \/ SlotOrderResume(s)

LoadSpec == LoadInit /\ [][LoadNext]_vars

\* ------------------------------------------------- a JsonRpcClient at work
\* A program holds one JsonRpcClient for the JSON-RPC order service and uses
\* it from one task: pc is "ready" between calls and "awaiting" while a call
\* waits for its reply; sent counts the posts, reply is the last reply read.
ClientService == "jsonrpc"

\* __aenter__: a new session.
ClientEnter ==
    /\ client.pc = "ready"
    /\ client.session \in {"none", "closed"}
    /\ client' = [client EXCEPT !.session = "open"]
    /\ UNCHANGED <<workload, ch, requestCount, latencyCount, errorCount, calls, started,
                   health, slots, proc, driver>>

\* __aexit__: the session is closed; _session keeps pointing to it.
ClientExit ==
    /\ client.pc = "ready"
    /\ client.session = "open"
    /\ client' = [client EXCEPT !.session = "closed"]
    /\ UNCHANGED <<workload, ch, requestCount, latencyCount, errorCount, calls, started,
                   health, slots, proc, driver>>

\* call(method, **params) up to the point where the post is on the wire.
ClientCall ==
    /\ client.pc = "ready"
    /\ client.sent < MaxRequests
    /\ LET out == call(client.session)
       IN client' = IF out.kind = "none"
                    THEN [client EXCEPT !.pc = "awaiting", !.sent = @ + 1,
                                        !.reply = NoResp, !.outcome = NoOutcome]
                    ELSE [client EXCEPT !.reply = NoResp, !.outcome = out]
    /\ UNCHANGED <<workload, ch, requestCount, latencyCount, errorCount, calls, started,
                   health, slots, proc, driver>>

\* The post finds no server, or times out.
ClientCallFails ==
    /\ client.pc = "awaiting"
    /\ ch[ClientService].pc = "idle"
    /\ \E text \in FaultTexts :
         client' = [client EXCEPT !.pc = "ready", !.reply = TransportFailure(text),
                                  !.outcome = call_reply(TransportFailure(text))]
    /\ UNCHANGED <<workload, ch, requestCount, latencyCount, errorCount, calls, started,
                   health, slots, proc, driver>>

\* The reply has arrived: call parses it and returns or raises.
ClientCallReturns ==
    /\ client.pc = "awaiting"
    /\ ch[ClientService].pc = "done"
    /\ client' = [client EXCEPT !.pc = "ready", !.reply = ch[ClientService].resp,
                                !.outcome = call_reply(ch[ClientService].resp)]
    /\ ch' = [ch EXCEPT ![ClientService] = IdleChain]
    /\ UNCHANGED <<workload, requestCount, latencyCount, errorCount, calls, started,
                   health, slots, proc, driver>>

\* The server side of a call is the chain of the JSON-RPC binding, which runs
\* only while the client awaits a reply.
ClientAwaits == client.pc = "awaiting"

ClientNext ==
    \/ ClientEnter
    \/ ClientExit
    \/ ClientCall
    \/ ClientCallFails
    \/ ClientCallReturns
    \/ ClientAwaits /\ UnregisteredMethod
    \/ \E p \in {ClientService} :
        \/ ClientAwaits /\ CreateOrder(p)
        \/ ClientAwaits /\ PaymentUnreachable(p)
        \/ ClientAwaits /\ PaymentDeclined(p)
        \/ ClientAwaits /\ ProcessPayment(p)
        \/ ClientAwaits /\ PaymentAfterDelay(p)
        \/ ClientAwaits /\ NotificationUnreachable(p)
        \/ ClientAwaits /\ NotificationDeclined(p)
        \/ ClientAwaits /\ SendNotification(p)
        \/ ClientAwaits /\ NotificationAfterDelay(p)
        \/ ClientAwaits /\ PaymentResume(p)
        \/ ClientAwaits /\ OrderResume(p)

ClientSpec == Init /\ [][ClientNext]_vars

\* ------------------------------------------------ a load-generator user
\* One locust user of one binding runs its tasks one after another: pc is
\* "ready" between tasks and "awaiting" while the task's request is out; resp
\* is the response the last task got, recorded what that task reported.
DriverWorkloads == {w \in ItemLists : Len(w) >= 1 /\ ValidOrderCreate(w)}

DriverInit ==
    /\ workload \in DriverWorkloads
    /\ ch = [p \in Protocols |-> IdleChain]
    /\ requestCount = [t \in Triples |-> 0]
    /\ latencyCount = [t \in Triples |-> 0]
    /\ errorCount = [k \in ErrorKeys |-> 0]
    /\ calls = [t \in Triples |-> 0]
    /\ started = 0
    /\ health = NoProbe
    /\ slots = <<>>
    /\ proc = AllRunning
    /\ client = NewClient
    /\ driver \in {[NoDriver EXCEPT !.binding = p] : p \in Protocols}

\* A task is picked and posts its order.
TaskStarts ==
    /\ driver.pc = "ready"
    /\ started < MaxRequests
    /\ driver' = [driver EXCEPT !.pc = "awaiting", !.resp = NoResp, !.recorded = <<>>]
    /\ UNCHANGED <<workload, ch, requestCount, latencyCount, errorCount, calls, started,
                   health, slots, proc, client>>

\* The post finds no order service, or times out.
TaskFindsNoServer ==
    /\ driver.pc = "awaiting"
    /\ ch[driver.binding].pc = "idle"
    /\ \E text \in FaultTexts :
         driver' = [driver EXCEPT !.pc = "ready", !.resp = TransportFailure(text),
                                  !.recorded = Task(driver.binding, TransportFailure(text))]
    /\ UNCHANGED <<workload, ch, requestCount, latencyCount, errorCount, calls, started,
                   health, slots, proc, client>>

\* The response is in: the task reports it.
TaskRecords ==
    /\ driver.pc = "awaiting"
    /\ ch[driver.binding].pc = "done"
    /\ driver' = [driver EXCEPT !.pc = "ready", !.resp = ch[driver.binding].resp,
                                !.recorded = Task(driver.binding, ch[driver.binding].resp)]
    /\ ch' = [ch EXCEPT ![driver.binding] = IdleChain]
    /\ UNCHANGED <<workload, requestCount, latencyCount, errorCount, calls, started,
                   health, slots, proc, client>>

\* The server side of a task is the chain of the user's binding, which runs
\* only while the task awaits its response.
DriverAwaits(p) == driver.pc = "awaiting" /\ driver.binding = p

DriverNext ==
    \/ TaskStarts
    \/ TaskFindsNoServer
    \/ TaskRecords
    \/ DriverAwaits("rest") /\ PaymentRejects
    \/ \E p \in Protocols :
        \/ DriverAwaits(p) /\ CreateOrder(p)
        \/ DriverAwaits(p) /\ PaymentUnreachable(p)
        \/ DriverAwaits(p) /\ PaymentDeclined(p)
        \/ DriverAwaits(p) /\ ProcessPayment(p)
        \/ DriverAwaits(p) /\ PaymentAfterDelay(p)
        \/ DriverAwaits(p) /\ NotificationUnreachable(p)
        \/ DriverAwaits(p) /\ NotificationDeclined(p)
        \/ DriverAwaits(p) /\ SendNotification(p)
        \/ DriverAwaits(p) /\ NotificationAfterDelay(p)
        \/ DriverAwaits(p) /\ PaymentResume(p)
        \/ DriverAwaits(p) /\ OrderResume(p)

DriverSpec == DriverInit /\ [][DriverNext]_vars

\* --------------------------------------------------------------- properties
\* Positions of a chain, as an observer sees them.
Answered(p) == ch[p].pc = "done"
PaymentReturned(p) == ch[p].notifCalls = 1 /\ ch[p].pc \in {"o_resume", "done"}
PaymentCallEnded(p) == ch[p].payCalls = 1 /\ ch[p].pc \in {"o_resume", "done"}

\* A failure response to a call, per binding: REST a non-200 status, JSON-RPC
\* an error envelope, gRPC a response whose success flag is false.
FailureResponse(p, reply) ==
    CASE p = "rest" -> reply.kind = "error" /\ reply.http # HTTP_OK
      [] p = "jsonrpc" -> reply.kind = "error"
      [] p = "grpc" -> reply.kind \in {"result", "error"} /\ reply.success = "false"

\* C1: in every binding, when the SendNotification call fails in transport
\* (unreachable, timeout), ProcessPayment still answers success with
\* notification null, and the payment is not marked failed.
C1_UnreachableNotificationKeepsPaymentSuccess ==
    \A p \in Protocols :
        (PaymentReturned(p) /\ ch[p].notifFault = "unreachable") =>
            /\ Succeeded(ch[p].payReply)
            /\ ~ch[p].payReply.notification.present
            /\ ch[p].payment.status # "failed"

\* C2: when the notification service answers SendNotification with a failure
\* response (REST non-200, JSON-RPC error envelope, gRPC success=false),
\* ProcessPayment returns a successful result whose payment is completed and
\* whose notification is null.
C2_FailedNotificationResponseKeepsPaymentSuccess ==
    \A p \in Protocols :
        (PaymentReturned(p) /\ FailureResponse(p, ch[p].notifReply)) =>
            /\ Succeeded(ch[p].payReply)
            /\ ch[p].payReply.payment.status = "completed"
            /\ ~ch[p].payReply.notification.present

C2_Witness ==
    /\ PaymentReturned("rest") /\ FailureResponse("rest", ch["rest"].notifReply)
    /\ ch["rest"].notifReply.http = HTTP_INTERNAL
    /\ PaymentReturned("grpc") /\ FailureResponse("grpc", ch["grpc"].notifReply)
    /\ ch["grpc"].notifReply.grpc = "OK"

\* C3: in every binding, when the ProcessPayment call fails or the payment
\* service is unreachable, CreateOrder answers not successful and its response
\* carries no payment and no notification.
C3_FailedPaymentLegFailsOrder ==
    \A p \in Protocols :
        (Answered(p) /\ PaymentCallEnded(p) /\ ~Succeeded(ch[p].payReply)) =>
            /\ ~Succeeded(ch[p].resp)
            /\ ~ch[p].resp.payment.present
            /\ ~ch[p].resp.notification.present

\* C4: when the payment service replies with a well-formed result whose
\* success flag is false, CreateOrder returns success=false with no payment and
\* no notification, as a normal result: REST HTTP 200 with success=false in the
\* body, gRPC success=false without an INTERNAL or UNAVAILABLE status.
C4_BusinessFailureIsNormalResult ==
    \A p \in Protocols :
        (Answered(p) /\ PaymentCallEnded(p)
           /\ ch[p].payReply.kind = "result" /\ ch[p].payReply.success = "false") =>
            /\ ch[p].resp.success = "false"
            /\ ~ch[p].resp.payment.present
            /\ ~ch[p].resp.notification.present
            /\ (p = "rest" => ch[p].resp.http = HTTP_OK)
            /\ (p = "grpc" => ch[p].resp.grpc \notin {"INTERNAL", "UNAVAILABLE"})

\* What CreateOrder of binding p answers to a payment business failure, and
\* what it answers when an internal fault strikes it.
BusinessFailureOutcome(p) == CreateOrderReturn(p, ch[p].order, NegativeResult(p)).resp
InternalFaultOutcomes(p) == {CreateOrderEntry(p, workload, text).resp : text \in FaultTexts}

\* C5: in every binding, a transport failure of the ProcessPayment call makes
\* CreateOrder answer a "service unavailable" outcome that differs from its
\* business-failure outcome and from its internal-fault outcome: REST HTTP 503,
\* gRPC UNAVAILABLE, JSON-RPC an error object unlike the other two.
C5_UnavailableIsDistinctOutcome ==
    \A p \in Protocols :
        (Answered(p) /\ ch[p].payFault = "unreachable") =>
            /\ ch[p].resp.kind = "error"
            /\ ch[p].resp # BusinessFailureOutcome(p)
            /\ ch[p].resp \notin InternalFaultOutcomes(p)
            /\ (p = "rest" => ch[p].resp.http = HTTP_UNAVAILABLE)
            /\ (p = "grpc" => ch[p].resp.grpc = "UNAVAILABLE")

\* C6: in every binding, a CreateOrder request with an empty item list, or with
\* an item of quantity <= 0 or unit_price < 0, is rejected before any call to
\* the payment service: no ProcessPayment or SendNotification call is made and
\* no payment or notification request counter increments.
C6_InvalidOrderHasNoDownstreamEffect ==
    \A p \in Protocols :
        ~ValidOrderCreate(workload) =>
            /\ ch[p].payCalls = 0
            /\ ch[p].notifCalls = 0
            /\ requestCount[Triple(p, "payment")] = 0
            /\ requestCount[Triple(p, "notification")] = 0
            /\ (Answered(p) => ch[p].resp.kind = "error")

\* The sum of quantity x unit_price over the first n items, taken from the end.
RECURSIVE SumOfProducts(_, _)
SumOfProducts(items, n) ==
    IF n = 0 THEN 0
    ELSE SumOfProducts(items, n - 1) + items[n].quantity * items[n].unit_price

\* C7: for every valid item list, the order CreateOrder builds has total_amount
\* equal to the sum over its items of quantity x unit_price, in every binding.
C7_TotalIsSumOfLineTotals ==
    \A p \in Protocols :
        (ValidOrderCreate(workload) /\ ch[p].order.present) =>
            /\ ch[p].order.total_amount = SumOfProducts(workload, Len(workload))
            /\ (Succeeded(ch[p].resp) =>
                  ch[p].resp.order.total_amount = SumOfProducts(workload, Len(workload)))

C7_Witness ==
    /\ ValidOrderCreate(workload)
    /\ Len(workload) = 2
    /\ workload[1].quantity # workload[2].quantity
    /\ Answered("rest") /\ Succeeded(ch["rest"].resp)
    /\ ch["rest"].resp.payment.status = "completed"
    /\ ch["rest"].resp.order.total_amount = 9
    /\ ch["grpc"].order.present

\* The behaviour of everything downstream of CreateOrder during one request.
DownstreamBehaviour(p) == <<ch[p].ordFault, ch[p].payFault, ch[p].notifFault>>
OrderFacts(order) == <<order.status, order.total_amount, order.n_items>>

\* C8: for the same CreateOrder input and the same downstream behaviour, the
\* three bindings reach the same logical outcome: the same accept/reject
\* decision and, on acceptance, the same order status, total and item count.
C8_BindingsAgree ==
    \A p, q \in Protocols :
        (Answered(p) /\ Answered(q) /\ DownstreamBehaviour(p) = DownstreamBehaviour(q)) =>
            /\ Succeeded(ch[p].resp) = Succeeded(ch[q].resp)
            /\ (Succeeded(ch[p].resp) =>
                  OrderFacts(ch[p].resp.order) = OrderFacts(ch[q].resp.order))

\* C9: every successful CreateOrder response contains an order with status
\* pending, a payment with status completed and, when the notification leg
\* succeeded, a notification with status sent.
C9_SuccessfulResponseIsComplete ==
    \A p \in Protocols :
        (Answered(p) /\ Succeeded(ch[p].resp)) =>
            /\ ch[p].resp.order.status = "pending"
            /\ ch[p].resp.payment.status = "completed"
            /\ (Succeeded(ch[p].notifReply) => ch[p].resp.notification.status = "sent")

\* C10: every call to CreateOrder, ProcessPayment or SendNotification,
\* whatever its end, increments the request counter of its (protocol, service,
\* method) triple exactly once.
C10_EveryCallIsCounted ==
    \A t \in Triples : requestCount[t] = calls[t]

\* C11: every call records exactly one latency observation for its (protocol,
\* service, method) triple whatever its outcome: once every call has
\* completed, the number of latency observations of a triple equals its
\* request count.
C11_LatencyObservedPerCall ==
    NoneInFlight => \A t \in Triples : latencyCount[t] = requestCount[t]

\* What one step adds to the error counter of (p, svc, e).
ErrorDelta(p, svc, e) == errorCount'[<<p, svc, e>>] - errorCount[<<p, svc, e>>]
CountsNoError(p, svc) == \A e \in ErrorTypes : ErrorDelta(p, svc, e) = 0
CountsOneError(p, svc, types) ==
    \E e \in types :
        /\ ErrorDelta(p, svc, e) = 1
        /\ \A other \in ErrorTypes \ {e} : ErrorDelta(p, svc, other) = 0

\* The steps in which a handler answers its caller.
OrderCallEnds(p) ==
    /\ ch'[p].pc = "done"
    /\ \/ ch[p].pc = "o_resume"
       \/ calls'[Triple(p, "order")] # calls[Triple(p, "order")]
PaymentCallEnds(p) ==
    /\ ch'[p].pc = "o_resume"
    /\ \/ ch[p].pc = "p_resume"
       \/ calls'[Triple(p, "payment")] # calls[Triple(p, "payment")]
NotificationCallEnds(p) ==
    /\ ch'[p].pc = "p_resume"
    /\ \/ ch[p].pc = "n_sleep"
       \/ calls'[Triple(p, "notification")] # calls[Triple(p, "notification")]

\* The error_type a failure is to be counted under: internal_error for a fault
\* of the handler itself, connection_error for a transport failure of its
\* downstream call, payment_failed for a payment business failure; a
\* validation failure may use any one label.
ExpectedErrorTypes(ownFault, downFault, downReply) ==
    IF ownFault = "internal" THEN {"internal_error"}
    ELSE IF downFault = "unreachable" THEN {"connection_error"}
    ELSE IF downReply.kind # "none" /\ ~Succeeded(downReply) THEN {"payment_failed"}
    ELSE ErrorTypes

CallCountsItsError(p, svc, reply, types) ==
    IF Succeeded(reply) THEN CountsNoError(p, svc) ELSE CountsOneError(p, svc, types)

\* C12: every failed call of CreateOrder, ProcessPayment or SendNotification
\* increments exactly one error counter, labelled with the error_type of the
\* failure, and a successful call increments none.
C12_OneErrorCountPerFailure ==
    [][\A p \in Protocols :
          /\ OrderCallEnds(p) =>
               CallCountsItsError(p, "order", ch'[p].resp,
                   ExpectedErrorTypes(ch'[p].ordFault, ch'[p].payFault, ch'[p].payReply))
          /\ PaymentCallEnds(p) =>
               CallCountsItsError(p, "payment", ch'[p].payReply,
                   ExpectedErrorTypes(ch'[p].payFault, ch'[p].notifFault, NoResp))
          /\ NotificationCallEnds(p) =>
               CallCountsItsError(p, "notification", ch'[p].notifReply,
                   ExpectedErrorTypes(ch'[p].notifFault, "none", NoResp))]_vars

\* C13: in every binding, a ProcessPayment request with amount < 0 or with a
\* payment_method outside the four enumerated values is rejected with a
\* validation error: no payment is marked completed and no SendNotification
\* call is made.
C13_InvalidPaymentRequestRejected ==
    \A p \in Protocols :
        (ch[p].payCalls = 1 /\ ~ValidPaymentRequest(PaymentRequestFor(ch[p].order))) =>
            /\ ch[p].payment.status # "completed"
            /\ ch[p].notifCalls = 0
            /\ (PaymentCallEnded(p) => ~Succeeded(ch[p].payReply))

\* The replies the JSON-RPC services of the chain have sent so far.
JsonRpcReplies ==
    LET c == ch["jsonrpc"]
    IN (IF c.pc = "done" THEN {c.resp} ELSE {})
       \cup (IF c.pc \in {"o_resume", "done"} /\ c.payFault \in {"none", "internal"}
                /\ c.payCalls = 1
             THEN {c.payReply} ELSE {})
       \cup (IF c.pc \in {"p_resume", "o_resume", "done"}
                /\ c.notifFault \in {"none", "internal"} /\ c.notifCalls = 1
             THEN {c.notifReply} ELSE {})

\* A well-formed JSON-RPC reply: HTTP 200 and exactly one of a result object
\* or an error object with a code and a message.
WellFormedJsonRpc(r) ==
    /\ r.http = HTTP_OK
    /\ r.kind \in {"result", "error"}
    /\ r.kind = "result" =>
         (r.code = 0 /\ r.text = "" /\ r.detail = ""
            /\ (r.order.present \/ r.payment.present \/ r.notification.present))
    /\ r.kind = "error" =>
         (r.code # 0 /\ (r.text # "" \/ r.detail # "")
            /\ ~r.order.present /\ ~r.payment.present /\ ~r.notification.present)

\* C14: every POST to a JSON-RPC endpoint is answered with HTTP 200 and a body
\* that carries exactly one of a result object or an error{code, message}
\* object; a request for an unregistered method yields error code -32601.
C14_JsonRpcEnvelope ==
    /\ \A r \in JsonRpcReplies : WellFormedJsonRpc(r)
    /\ (ch["jsonrpc"].pc = "done" /\ ch["jsonrpc"].ordFault = "unregistered") =>
         (ch["jsonrpc"].resp.kind = "error"
            /\ ch["jsonrpc"].resp.code = JSONRPC_METHOD_NOT_FOUND)

C14_Witness ==
    /\ ch["jsonrpc"].pc = "done"
    /\ Cardinality(JsonRpcReplies) = 3
    /\ \E r \in JsonRpcReplies : r.kind = "error"
    /\ \E r \in JsonRpcReplies : r.kind = "result"

\* C15: REST CreateOrder answers an HTTP 4xx status only when its own request
\* fails validation, and answers a failed payment leg (a non-200 payment reply,
\* an unreachable payment service) or an internal fault with a 5xx status,
\* never with a 2xx, 3xx or 4xx one.
C15_RestStatusClasses ==
    LET c == ch["rest"]
        legFailed == c.payCalls = 1 /\ (c.payReply.kind = "transport" \/ c.payReply.http # HTTP_OK)
    IN c.pc = "done" =>
         /\ (c.resp.http \in 400..499) => ~ValidOrderCreate(workload)
         /\ (legFailed \/ c.ordFault = "internal") => c.resp.http \in 500..599

\* ----------------------------------------------------------------- liveness
\* The bindings whose downstream calls run under a client timeout: httpx
\* AsyncClient(timeout=30.0) and aiohttp ClientTimeout(total=30).  The gRPC
\* stubs are called with no timeout argument.
TimedProtocols == {"rest", "jsonrpc"}

\* A handler that can run does run (the event loop is fair to it), and a call
\* under a timeout that gets no answer ends in a transport failure.  Nothing
\* obliges a callee to pick a request up.
Fairness ==
    /\ \A p \in Protocols :
         /\ WF_vars(PaymentAfterDelay(p))
         /\ WF_vars(NotificationAfterDelay(p))
         /\ WF_vars(ClientNotificationAfterDelay(p))
         /\ WF_vars(PaymentResume(p))
         /\ WF_vars(OrderResume(p))
    /\ \A p \in TimedProtocols :
         /\ WF_vars(PaymentUnreachable(p))
         /\ WF_vars(NotificationUnreachable(p))

LiveSpec == Spec /\ Fairness

InFlight(p) == ch[p].pc \notin {"idle", "done", "n_done"}

\* C16: every downstream call is made under a bounded timeout, so every
\* accepted CreateOrder or ProcessPayment request eventually returns to its
\* caller even if the callee never responds.
C16_AcceptedRequestsReturn ==
    \A p \in Protocols :
        /\ InFlight(p) ~> (ch[p].pc \in {"done", "n_done"})
        /\ (ch[p].pc \in {"p_sleep", "p_wait_notif"}) ~> (ch[p].pc \in {"o_resume", "done"})

\* C17: for an internal fault in any service and binding, the error text the
\* client sees is a generic description that does not depend on the fault's
\* own description: no part of str(e) reaches the reply, so two requests that
\* fail with different fault messages get the same text.
C17_InternalFaultTextIsGeneric ==
    \A p \in Protocols :
        /\ (Answered(p) /\ ch[p].ordFault = "internal") => ch[p].resp.detail = ""
        /\ (PaymentCallEnded(p) /\ ch[p].payFault = "internal") => ch[p].payReply.detail = ""
        /\ (ch[p].pc \in {"p_resume", "o_resume", "done"} /\ ch[p].notifFault = "internal") =>
             ch[p].notifReply.detail = ""

\* C18: in every binding, a SendNotification request whose notification_type
\* is not one of email, sms, push is rejected with a validation error and no
\* notification is marked sent.
C18_InvalidNotificationTypeRejected ==
    \A p \in Protocols :
        (ch[p].pc \in {"n_direct", "n_done"} /\ ch[p].notifType \notin NotificationTypes) =>
            /\ ch[p].pc = "n_done"
            /\ ch[p].notifReply.kind = "error"
            /\ ~ch[p].notification.present

\* ------------------------------------------------------------------- C19
ExpectedHealthBody(svc, p) == [status |-> "healthy", service |-> svc \o "-" \o p]

\* C19: a health probe of any service of any binding, in any state, gets the
\* fixed body {status: "healthy", service: "<name>-<protocol>"}.
C19_HealthCheckIsFixed ==
    health # NoProbe =>
        /\ health.answered
        /\ health.body = ExpectedHealthBody(health.service, health.protocol)

\* ------------------------------------------------------------------- C20
NotificationCallOpen(p) == ch[p].notifCalls = 1 /\ ch[p].notifReply.kind = "none"
PaymentCallOpen(p) == ch[p].payCalls = 1 /\ ch[p].payReply.kind = "none"

\* C20: within one chain the calls are sequential and nested.  ProcessPayment
\* is sent only once the order is built; SendNotification is sent only once the
\* payment is marked completed; PaymentService has not replied while its
\* notification call is open, and a successful payment reply follows an ended
\* notification call; OrderService has not replied while its payment call is
\* open, and a successful order response follows an ended payment call.
C20_CallsAreNested ==
    \A p \in Protocols :
        /\ ch[p].payCalls = 1 => ch[p].order.present
        /\ ch[p].payment.present => ch[p].payCalls = 1
        /\ ch[p].notifCalls = 1 =>
              ch[p].payment.status = "completed" /\ ch[p].payment.processed
        /\ (ch[p].notification.present /\ ch[p].pc \notin {"n_direct", "n_done"}) =>
              ch[p].notifCalls = 1
        /\ NotificationCallOpen(p) =>
              ch[p].payReply.kind = "none" /\ ch[p].resp.kind = "none"
        /\ PaymentCallOpen(p) => ch[p].resp.kind = "none"
        /\ Succeeded(ch[p].payReply) => ch[p].notifCalls = 1 /\ ~NotificationCallOpen(p)
        /\ Succeeded(ch[p].resp) => ch[p].payCalls = 1 /\ ~PaymentCallOpen(p)

\* A chain whose three calls have all returned, innermost first.
C20_Witness ==
    \E p \in Protocols :
        /\ ch[p].pc = "done"
        /\ ch[p].notifReply.kind = "result"
        /\ ch[p].payReply.kind = "result"
        /\ ch[p].resp.kind = "result"
        /\ ch[p].notification.sent

\* ------------------------------------------------------------------- C21
PaymentPastDelay(p) ==
    ch[p].payment.present /\ ch[p].pc \in {"p_wait_notif", "n_sleep", "p_resume", "o_resume", "done"}

\* C21: an accepted CreateOrder request sends exactly one ProcessPayment call
\* and an accepted ProcessPayment request sends exactly one SendNotification
\* call; a request that was not accepted sends none, and no call is repeated
\* after a failure, so the payment entry point is never reached more often than
\* the order entry point.
C21_ExactlyOneCallPerHop ==
    \A p \in Protocols :
        /\ ch[p].payCalls \in {0, 1}
        /\ ch[p].notifCalls \in {0, 1}
        /\ ch[p].payCalls = 1 <=> ch[p].order.present
        /\ PaymentPastDelay(p) => ch[p].notifCalls = 1
        /\ ch[p].notifCalls = 1 => ch[p].payment.present
        /\ calls[Triple(p, "payment")] <= calls[Triple(p, "order")]
        /\ (ch[p].payFault = "unreachable" /\ ch[p].pc = "done") =>
              ch[p].payCalls = 1 /\ ~ch[p].payment.present

\* A chain answered after its payment call failed in transit, and a chain
\* answered after its notification call failed in transit.
C21_Witness ==
    /\ \E p \in Protocols :
         ch[p].pc = "done" /\ ch[p].payFault = "unreachable" /\ ch[p].payCalls = 1
    /\ \E p \in Protocols :
         ch[p].pc = "done" /\ ch[p].notifFault = "unreachable" /\ ch[p].notifCalls = 1

\* ------------------------------------------------------------------- C22
NotificationLegFailed(p) ==
    /\ ch[p].notifCalls = 1
    /\ ch[p].notifFault \in {"unreachable", "internal", "declined"}

\* C22: a CreateOrder request whose notification leg failed, by a failure
\* response or by an unreachable notification service, and whose payment leg
\* had no fault of its own, is answered with success, the payment populated and
\* no notification, in every binding.
C22_NotificationFailureNeverFailsOrder ==
    \A p \in Protocols :
        (Answered(p) /\ NotificationLegFailed(p) /\ ch[p].payFault = "none") =>
            /\ Succeeded(ch[p].resp)
            /\ ch[p].resp.payment.present
            /\ ch[p].resp.payment.status = "completed"
            /\ ~ch[p].resp.notification.present

\* ------------------------------------------------------------------- C23
\* C23: in every binding, the step in which ProcessPayment returns after its
\* SendNotification call failed (failure response or transport failure) adds
\* exactly one to the notification_failed counter of the payment service, and
\* the step in which it returns after a successful call adds none.
C23_SwallowedFailureIsMetered ==
    [][\A p \in Protocols :
          (ch[p].pc = "p_resume" /\ ch'[p].pc = "o_resume") =>
              ErrorDelta(p, "payment", "notification_failed") =
                  IF Succeeded(ch[p].notifReply) THEN 0 ELSE 1]_vars

\* ------------------------------------------------------------------- C26
PaymentCreated(p) == ~ch[p].payment.present /\ ch'[p].payment.present

\* C26: within one ProcessPayment request the payment is created with status
\* pending, has status processing during the simulated gateway delay, and
\* becomes completed only in the step that ends the delay.
C26_PaymentStatusLifecycle ==
    [][\A p \in Protocols :
          /\ PaymentCreated(p) => ch'[p].payment.status = "pending"
          /\ ch'[p].pc = "p_sleep" => ch'[p].payment.status = "processing"
          /\ (ch[p].payment.status # "completed" /\ ch'[p].payment.status = "completed") =>
                ch[p].pc = "p_sleep" /\ ch[p].payment.status = "processing"]_vars

\* ------------------------------------------------------------------- C27
\* C27: at every point of a ProcessPayment request a payment that is not
\* completed has no transaction_id, and a payment has a transaction_id exactly
\* when it has processed_at.
C27_TransactionIdOnlyWhenCompleted ==
    \A p \in Protocols :
        ch[p].payment.present =>
            /\ ch[p].payment.status # "completed" => ~ch[p].payment.has_transaction_id
            /\ ch[p].payment.has_transaction_id <=> ch[p].payment.processed

\* ------------------------------------------------------------------- C28
\* The SendNotification request a binding is serving or has served.
NotificationRequestOf(p) ==
    IF ch[p].pc \in {"n_direct", "n_done"}
    THEN ClientNotificationRequest(ch[p].notifType)
    ELSE NotificationRequestFor(ch[p].payment)

NotificationInDelay(p) == ch[p].pc \in {"n_sleep", "n_direct"}
NotificationServed(p) ==
    \/ ch[p].pc = "n_done"
    \/ ch[p].notifCalls = 1 /\ ch[p].notifFault = "none" /\ ch[p].notifReply.kind # "none"

\* What binding q makes of a request, before and after the send delay.
NotificationBefore(q, req) == SendNotificationEntry(q, req, "").notification
NotificationAfter(q, req) ==
    IF NotificationBefore(q, req).present
    THEN SendNotificationReturn(q, NotificationBefore(q, req)).resp.notification
    ELSE NoNotification

\* C28: for the same (order_id, payment_id, recipient, notification_type) the
\* three SendNotification bindings produce the same notification.  It is
\* pending, not sent, during the send delay, and sent after it; its message
\* embeds the request's order_id and payment_id.
C28_NotificationBindingsAgree ==
    \A p \in Protocols :
        LET req == NotificationRequestOf(p)
        IN /\ NotificationInDelay(p) =>
                /\ \A q \in Protocols : ch[p].notification = NotificationBefore(q, req)
                /\ ch[p].notification.status = "pending"
                /\ ~ch[p].notification.sent
           /\ NotificationServed(p) =>
                /\ \A q \in Protocols : ch[p].notification = NotificationAfter(q, req)
                /\ ch[p].notification.present =>
                     /\ ch[p].notification.status = "sent"
                     /\ ch[p].notification.sent
                     /\ ch[p].notification.message.text # ""
                     /\ ch[p].notification.message.order_id = req.order_id
                     /\ ch[p].notification.message.payment_id = req.payment_id

SlotAnswered(s) == slots[s].pc = "done"

\* C24: under any interleaving of the requests of a load run, a CreateOrder
\* response holds only entities of its own chain: its payment carries its
\* order's order_id, its notification carries its order's order_id and its
\* payment's payment_id, and no order_id or payment_id of one response occurs
\* in the response of another request.
C24_ResponsesHoldOwnEntities ==
    \A s \in Slots :
        (SlotAnswered(s) /\ Succeeded(slots[s].resp)) =>
            LET r == slots[s].resp
            IN /\ r.order.order_id = slots[s].order.order_id
               /\ r.order.order_id # NoId
               /\ r.payment.present =>
                    /\ r.payment.order_id = r.order.order_id
                    /\ r.payment.payment_id # NoId
               /\ r.notification.present =>
                    /\ r.notification.order_id = r.order.order_id
                    /\ r.notification.payment_id = r.payment.payment_id
               /\ \A t \in Slots \ {s} :
                    (SlotAnswered(t) /\ Succeeded(slots[t].resp)) =>
                        /\ r.order.order_id # slots[t].resp.order.order_id
                        /\ r.payment.present =>
                             /\ r.payment.order_id # slots[t].resp.order.order_id
                             /\ r.payment.payment_id # slots[t].resp.payment.payment_id
                        /\ r.notification.present =>
                             /\ r.notification.order_id # slots[t].resp.order.order_id
                             /\ r.notification.payment_id # slots[t].resp.payment.payment_id

\* Two requests that overlapped, the later one answered first, both with
\* payment and notification.
C24_Witness ==
    \E s, t \in Slots :
        /\ s < t
        /\ slots[t].overlapped
        /\ SlotAnswered(t) /\ Succeeded(slots[t].resp) /\ slots[t].resp.notification.present
        /\ slots[s].pc = "o_resume" /\ slots[s].payReply.notification.present

\* ------------------------------------------------------------------- C25
AllCompleted == started >= 1 /\ \A s \in 1..started : SlotAnswered(s)
HandlerRuns(svc) == Cardinality({s \in Slots : svc \in slots[s].entered})

C30_ClientOpenWhenUsed ==
    \A s \in Slots :
        /\ slots[s].payClient \in {"unused", "open"}
        /\ slots[s].notifClient \in {"unused", "open"}

\* The "service unavailable" outcome of CreateOrder: REST 503, gRPC UNAVAILABLE.
ReportsUnavailable(p) ==
    ch[p].resp.http = HTTP_UNAVAILABLE \/ ch[p].resp.grpc = "UNAVAILABLE"

\* C31: OrderService answers "service unavailable" only when its ProcessPayment
\* call found no payment service or timed out; when the payment service was
\* reached and answered, whatever it answered, the order response is not the
\* unavailable outcome.
C31_UnavailableOnlyWhenUnreachable ==
    \A p \in Protocols :
        (Answered(p) /\ ReportsUnavailable(p)) => ch[p].payFault = "unreachable"

\* C32: an order keeps the status it was constructed with: the order a handler
\* holds and the order of every response has status pending, whether the
\* payment leg succeeded or failed.
C32_OrderStatusStaysPending ==
    \A p \in Protocols :
        /\ ch[p].order.present => ch[p].order.status = "pending"
        /\ ch[p].resp.order.present => ch[p].resp.order.status = "pending"

C32_Witness ==
    /\ Answered("rest") /\ Succeeded(ch["rest"].resp)
    /\ ch["rest"].resp.order.present
    /\ ch["rest"].resp.payment.status = "completed"
    /\ Answered("grpc") /\ ch["grpc"].order.present
    /\ ch["grpc"].payFault = "internal"
    /\ ~Succeeded(ch["grpc"].resp)

\* The error labels the handlers of binding p can pass to ERROR_COUNT in
\* their next step from where the chain is now ("none" for an outcome that
\* counts no error).
ErrorLabelsOf(p) ==
    CASE ch[p].pc = "idle" -> {CreateOrderEntry(p, workload, f).error : f \in Faults}
      [] ch[p].pc = "o_wait_pay" ->
           {ProcessPaymentEntry(p, PaymentRequestFor(ch[p].order), f).error : f \in Faults}
      [] ch[p].pc = "p_wait_notif" ->
           {SendNotificationEntry(p, NotificationRequestFor(ch[p].payment), f).error :
              f \in Faults}
      [] ch[p].pc = "p_resume" -> {ProcessPaymentReturn(p, ch[p].payment, ch[p].notifReply).error}
      [] ch[p].pc = "o_resume" -> {CreateOrderReturn(p, ch[p].order, ch[p].payReply).error}
      [] OTHER -> {}

\* The step in which the handler of service svc of binding p answers its caller.
HandlerAnswers(p, svc) ==
    CASE svc = "order" -> ch[p].pc \in {"idle", "o_resume"} /\ ch'[p].pc = "done"
      [] svc = "payment" -> ch[p].pc \in {"o_wait_pay", "p_resume"} /\ ch'[p].pc = "o_resume"
      [] svc = "notification" ->
           \/ ch[p].pc = "p_wait_notif" /\ ch'[p].pc = "p_resume"
           \/ ch[p].pc = "idle" /\ ch'[p].pc = "n_done"

\* C33: every label a handler passes to the error counter is one of
\* payment_failed, notification_failed, connection_error, internal_error, and
\* a step that increments an error counter increments it by one, under the
\* protocol and service of the handler that answers in that step.
C33_ErrorCountersAreLabelled ==
    [][/\ \A p \in Protocols :
            ch'[p].pc # ch[p].pc => ErrorLabelsOf(p) \subseteq ErrorTypes \cup {"none"}
       /\ errorCount' # errorCount =>
            /\ DOMAIN errorCount' = ErrorKeys
            /\ \A k \in ErrorKeys :
                 errorCount'[k] # errorCount[k] =>
                     /\ errorCount'[k] = errorCount[k] + 1
                     /\ HandlerAnswers(k[1], k[2])]_vars

C33_Witness ==
    /\ errorCount[<<"grpc", "payment", "notification_failed">>] = 1
    /\ errorCount[<<"rest", "order", "connection_error">>] = 1
    /\ errorCount[<<"rest", "order", "internal_error">>] = 0
    /\ Answered("rest") /\ Answered("grpc")

\* The last call of the client got a reply from the server and has ended.
ClientReadReply == client.pc = "ready" /\ client.reply.kind \in {"result", "error"}

\* C34: JsonRpcClient.call returns the result member exactly when the reply is
\* a success response, and for an error reply raises JsonRpcError with the
\* code and the message of the reply's error object.
C34_CallReturnsOrRaises ==
    ClientReadReply =>
        LET r == client.reply
            o == client.outcome
        IN /\ o.kind \in {"returned", "raised"}
           /\ o.kind = "returned" <=> r.kind = "result"
           /\ o.kind = "returned" =>
                /\ o.value.order = r.order
                /\ o.value.payment = r.payment
                /\ o.value.notification = r.notification
           /\ o.kind = "raised" =>
                /\ o.exception = "JsonRpcError"
                /\ o.code = r.code
                /\ o.message = r.text \o r.detail

C34_Witness ==
    /\ ClientReadReply
    /\ client.sent = 2
    /\ client.outcome.kind = "raised"
    /\ client.outcome.code = JSONRPC_SERVER_ERROR
    /\ client.outcome.message = "fault_b"
    /\ requestCount[Triple("jsonrpc", "notification")] = 1
    /\ latencyCount[Triple("jsonrpc", "order")] = 1

\* A step in which call() is entered: the client was between calls and the
\* step is neither __aenter__ nor __aexit__.
ClientCallStep ==
    /\ client.pc = "ready"
    /\ client' # client
    /\ client'.session = client.session

\* C35: a call made before __aenter__ or after __aexit__ sends nothing and
\* raises the "Client not initialized" RuntimeError; a request is sent only
\* while the client is inside its async-with context.
C35_CallOnlyInsideContext ==
    [][ClientCallStep =>
         /\ client'.sent # client.sent => client.session = "open"
         /\ client.session # "open" =>
              /\ client'.sent = client.sent
              /\ client'.outcome = Raise("RuntimeError", 0, NotInitializedText)]_vars

\* The user's last task has got its response, or has found no server.
TaskEnded == driver.pc = "ready" /\ driver.resp.kind # "none"

\* C36: every task invocation of every driver reports exactly one outcome,
\* and it reports success exactly when the order response is a logical
\* success (REST 200 with success true, JSON-RPC 200 with a result member,
\* gRPC status OK with success true); anything else is one failure.
C36_OneOutcomePerTask ==
    TaskEnded =>
        /\ Len(driver.recorded) = 1
        /\ driver.recorded[1] \in {"success", "failure"}
        /\ driver.recorded[1] = "success" <=> Succeeded(driver.resp)

C36_Witness ==
    /\ TaskEnded
    /\ driver.binding = "grpc"
    /\ driver.recorded = <<"failure">>
    /\ driver.resp.grpc = "UNAVAILABLE"
    /\ latencyCount[Triple("grpc", "order")] = 1
    /\ started = 2

====
